---- MODULE Spec2Model ----
(***************************************************************************)
(* Model of the single-producer single-consumer ringbuffer of src/lib.rs.  *)
(* One writer thread and one reader thread share a RingBuffer through an   *)
(* Arc.  Every access of push, pull, peek, peek_mut, is_full and is_empty  *)
(* to shared memory (an atomic index or a slot) is one step, together with *)
(* the thread-local computation that follows it, so that all interleavings *)
(* of the two threads are explored.  Indices are IdxBits-wide unsigned     *)
(* integers (usize), and ringbuffer() is called with every usize value.    *)
(*                                                                         *)
(* Assumptions of the model:                                               *)
(*  - the atomic accesses to idx_r and idx_w are interleaved: an Acquire   *)
(*    load returns the value of the latest Release store;                  *)
(*  - a handle is used by one thread and dropped between two calls; the    *)
(*    reference returned by peek or peek_mut is used only until the next   *)
(*    use of the reader (the borrow checker enforces both);                *)
(*  - assume_init on an uninitialised slot yields an arbitrary value and   *)
(*    sets ub.                                                             *)
(* The variables from nextId on are history variables: they record what    *)
(* the program did and never influence it.                                 *)
(***************************************************************************)
EXTENDS Integers, Sequences, FiniteSets, TLC

\* Width of usize in the model; all index arithmetic is modulo 2^IdxBits.
IdxBits == 2
\* Number of push calls (each call brings a fresh value) in a behaviour.
MaxPush == 5
\* Number of distinct payloads the consumer may write through a peek_mut reference.
NumMut == 1

Modulus == 2 ^ IdxBits
Usize == 0 .. (Modulus - 1)
\* Payloads the consumer may write through a peek_mut reference
MutValues == 1 .. NumMut

VARIABLES
    phase,          \* "start", "live", "panicked", "freed"
    capacity,       \* argument given to ringbuffer()
    ptr,            \* RingBuffer.ptr: the boxed slice of MaybeUninit<T>
    mask,           \* RingBuffer.mask
    idx_r,          \* RingBuffer.idx_r (atomic)
    idx_w,          \* RingBuffer.idx_w (atomic)
    strong,         \* Arc strong count of the RingBuffer
    cached_idx_r,   \* RingBufferWriter.cached_idx_r
    local_idx_w,    \* RingBufferWriter.local_idx_w
    local_idx_r,    \* RingBufferReader.local_idx_r
    cached_idx_w,   \* RingBufferReader.cached_idx_w
    w_alive,        \* the writer handle exists
    r_alive,        \* the reader handle exists
    w_pc,           \* writer thread: "idle", "load", "store", "publish"
    w_op,           \* the writer's call in progress: "push", "is_full" or "none"
    w_t,            \* the argument t of the push in progress
    w_ret,          \* what the writer's last call returned
    r_pc,           \* reader thread: "idle", "load", "take", "publish", "ref"
    r_op,           \* the reader's call in progress, or "none"
    r_t,            \* the value t moved out by the pull in progress
    r_ret,          \* what the reader's last call returned
    nextId,         \* identity of the next value handed to push
    accepted,       \* values moved into the buffer by successful pushes, in order
    pulled,         \* identities of the values returned by successful pulls, in order
    destroyed,      \* values whose destructor was run by RingBuffer::drop, in order
    last_mut,       \* the value last written through a peek_mut reference
    last_peek,      \* what the last peek or peek_mut since the last pull showed
    teardowns,      \* number of times RingBuffer::drop ran
    ub              \* an uninitialised slot was assumed initialised

shared == <<phase, capacity, ptr, mask, idx_r, idx_w, strong>>
writer == <<cached_idx_r, local_idx_w, w_alive, w_pc, w_op, w_t, w_ret>>
reader == <<local_idx_r, cached_idx_w, r_alive, r_pc, r_op, r_t, r_ret>>
ghost  == <<nextId, accepted, pulled, destroyed, last_mut, last_peek, teardowns, ub>>
vars   == <<shared, writer, reader, ghost>>

----------------------------------------------------------------------------
\* Values and slots

\* MaybeUninit::uninit()
Uninit == [id |-> 0, val |-> 0]
\* A value of type T: id tells the values handed to push apart (the producer of
\* tests/verify.rs pushes a counter), val is what the consumer wrote into the
\* value through a peek_mut reference (0: the value is as it was pushed).
Elem(i, v) == [id |-> i, val |-> v]
\* What assume_init may yield for an uninitialised slot (undefined behaviour).
Garbage == {Elem(0, v) : v \in MutValues}
\* MaybeUninit::assume_init / assume_init_ref / assume_init_mut: the set of outcomes
assume_init(slot) == IF slot = Uninit THEN Garbage ELSE {slot}

\* Option<T>: None is the empty sequence, Some(e) is <<e>>
None == << >>
Some(e) == <<e>>

NoRet == [op |-> "none", opt |-> None, b |-> FALSE]
RetOpt(op, o) == [op |-> op, opt |-> o, b |-> FALSE]
RetBool(op, b) == [op |-> op, opt |-> None, b |-> b]

----------------------------------------------------------------------------
\* usize arithmetic

wrapping_add(a, b) == (a + b) % Modulus

\* Variant of wrapping_sub that stops at zero (sensitivity of C18)
saturating_sub(a, b) == IF a >= b THEN a - b ELSE 0

wrapping_sub(a, b) == (a - b + Modulus) % Modulus

RECURSIVE count_ones(_)
count_ones(n) == IF n = 0 THEN 0 ELSE (n % 2) + count_ones(n \div 2)

RECURSIVE BitAnd(_, _)
BitAnd(a, b) ==
    IF a = 0 \/ b = 0 THEN 0
    ELSE (a % 2) * (b % 2) + 2 * BitAnd(a \div 2, b \div 2)

\* Variant of is_power_of_two that forgets that 0 has no bit set (sensitivity of C9)
is_power_of_two_or_zero(n) == BitAnd(n, n - 1) = 0

\* usize::is_power_of_two
is_power_of_two(n) == count_ones(n) = 1

\* Variant of get_unchecked_mut with a mask one bit too short (sensitivity of C1)
get_unchecked_mut_short_mask(idx, m) == BitAnd(idx, m \div 2) + 1

\* RingBuffer::get_unchecked_mut: position of logical index idx in the slice
\* (the slice is modelled as a 1-based sequence)
get_unchecked_mut(idx, m) == BitAnd(idx, m) + 1

\* ptr.len()
len(p) == Len(p)

----------------------------------------------------------------------------
\* State before ringbuffer() is called: nothing is allocated, no handle exists
Init ==
    /\ phase = "start"
    /\ capacity = 0
    /\ ptr = << >>
    /\ mask = 0
    /\ idx_r = 0 - 1
    /\ idx_w = 0 - 1
    /\ strong = 0
    /\ cached_idx_r = 0 - 1
    /\ local_idx_w = 0 - 1
    /\ local_idx_r = 0 - 1
    /\ cached_idx_w = 0 - 1
    /\ w_alive = FALSE
    /\ r_alive = FALSE
    /\ w_pc = "idle" /\ w_op = "none" /\ w_t = Uninit /\ w_ret = NoRet
    /\ r_pc = "idle" /\ r_op = "none" /\ r_t = Uninit /\ r_ret = NoRet
    /\ nextId = 1
    /\ accepted = << >>
    /\ pulled = << >>
    /\ destroyed = << >>
    /\ last_mut = Uninit
    /\ last_peek = Uninit
    /\ teardowns = 0
    /\ ub = FALSE

\* the slice allocated by ringbuffer(c)
new_slice(c) == [i \in 1 .. c |-> Uninit]

\* ringbuffer(capacity)
ringbuffer(c) ==
    /\ phase = "start"
    /\ capacity' = c
    /\ IF is_power_of_two(c)
       THEN /\ phase' = "live"
            /\ ptr' = new_slice(c)
            /\ mask' = c - 1
            /\ idx_r' = 0
            /\ idx_w' = 0
            /\ strong' = 2
            /\ cached_idx_r' = 0
            /\ local_idx_w' = 0
            /\ local_idx_r' = 0
            /\ cached_idx_w' = 0
            /\ w_alive' = TRUE
            /\ r_alive' = TRUE
       ELSE /\ phase' = "panicked"
            /\ UNCHANGED <<ptr, mask, idx_r, idx_w, strong, cached_idx_r, local_idx_w,
                           local_idx_r, cached_idx_w, w_alive, r_alive>>
    /\ UNCHANGED <<w_pc, w_op, w_t, w_ret, r_pc, r_op, r_t, r_ret, ghost>>

----------------------------------------------------------------------------
\* Writer

\* RingBufferWriter::capacity
writer_capacity == len(ptr)

\* Variant of potentially_full that compares with capacity + 1 (sensitivity of C2)
potentially_full_off_by_one == wrapping_sub(local_idx_w, cached_idx_r) = len(ptr) + 1

\* lib.rs:201, the first test of is_full, on the writer's own counters
potentially_full == wrapping_sub(local_idx_w, cached_idx_r) = len(ptr)

\* Variant of really_full that tests for more than capacity (sensitivity of C14)
really_full_lenient(r) == wrapping_sub(local_idx_w, r) > len(ptr)

\* Variant of really_full that trusts the cached index (sensitivity of C4)
really_full_stale(r) == wrapping_sub(local_idx_w, cached_idx_r) = len(ptr)

\* lib.rs:204, the second test of is_full, with the value r just loaded from idx_r
really_full(r) == wrapping_sub(local_idx_w, r) = len(ptr)

\* Variant of is_full_returns in which push waits for room (sensitivity of C10)
is_full_returns_waiting(op, t, b) ==
    IF op = "is_full"
    THEN /\ w_pc' = "idle"
         /\ w_op' = "none"
         /\ w_ret' = RetBool("is_full", b)
         /\ w_t' = Uninit
    ELSE /\ w_pc' = (IF b THEN "load" ELSE "store")
         /\ w_op' = op
         /\ w_t' = t
         /\ UNCHANGED w_ret

\* is_full() returns b to its caller: to the user, or to push(t) (lib.rs:176-178)
is_full_returns(op, t, b) ==
    IF op = "is_full"
    THEN /\ w_pc' = "idle"
         /\ w_op' = "none"
         /\ w_ret' = RetBool("is_full", b)
         /\ w_t' = Uninit
    ELSE IF b
    THEN /\ w_pc' = "idle"
         /\ w_op' = "none"
         /\ w_ret' = RetOpt("push", Some(t))
         /\ w_t' = Uninit
    ELSE /\ w_pc' = "store"
         /\ w_op' = op
         /\ w_t' = t
         /\ UNCHANGED w_ret

\* push(t) or is_full() is called, up to the first access to shared memory
writer_call(op, t) ==
    /\ w_alive /\ w_pc = "idle"
    /\ IF potentially_full
       THEN /\ w_pc' = "load"
            /\ w_op' = op
            /\ w_t' = t
            /\ UNCHANGED w_ret
       ELSE is_full_returns(op, t, FALSE)
    /\ UNCHANGED <<shared, cached_idx_r, local_idx_w, w_alive, reader,
                   accepted, pulled, destroyed, last_mut, last_peek, teardowns, ub>>

push_call ==
    /\ nextId <= MaxPush
    /\ nextId' = nextId + 1
    /\ writer_call("push", Elem(nextId, 0))

is_full_call ==
    /\ UNCHANGED nextId
    /\ writer_call("is_full", Uninit)

\* Variant of is_full_load that caches one more than it loaded (sensitivity of C13)
is_full_load_ahead ==
    /\ w_pc = "load"
    /\ cached_idx_r' = wrapping_add(idx_r, 1)
    /\ is_full_returns(w_op, w_t, really_full(idx_r))
    /\ UNCHANGED <<shared, local_idx_w, w_alive, reader, ghost>>

\* lib.rs:202-204
is_full_load ==
    /\ w_pc = "load"
    /\ cached_idx_r' = idx_r
    /\ is_full_returns(w_op, w_t, really_full(idx_r))
    /\ UNCHANGED <<shared, local_idx_w, w_alive, reader, ghost>>

\* Variant of push_store that increments local_idx_w before it stores (sensitivity of C17)
push_store_after_incr ==
    /\ w_pc = "store"
    /\ ptr' = [ptr EXCEPT ![get_unchecked_mut(wrapping_add(local_idx_w, 1), mask)] = w_t]
    /\ accepted' = Append(accepted, w_t)
    /\ w_t' = Uninit
    /\ local_idx_w' = wrapping_add(local_idx_w, 1)
    /\ w_pc' = "publish"
    /\ UNCHANGED <<phase, capacity, mask, idx_r, idx_w, strong, cached_idx_r,
                   w_alive, w_op, w_ret, reader, nextId, pulled, destroyed, last_mut,
                   last_peek, teardowns, ub>>

\* lib.rs:181-187
push_store ==
    /\ w_pc = "store"
    /\ ptr' = [ptr EXCEPT ![get_unchecked_mut(local_idx_w, mask)] = w_t]
    /\ accepted' = Append(accepted, w_t)
    /\ w_t' = Uninit
    /\ local_idx_w' = wrapping_add(local_idx_w, 1)
    /\ w_pc' = "publish"
    /\ UNCHANGED <<phase, capacity, mask, idx_r, idx_w, strong, cached_idx_r,
                   w_alive, w_op, w_ret, reader, nextId, pulled, destroyed, last_mut,
                   last_peek, teardowns, ub>>

\* Variant of push_publish without the store of idx_w (sensitivity of C11)
push_publish_unpublished ==
    /\ w_pc = "publish"
    /\ w_ret' = RetOpt("push", None)
    /\ w_op' = "none"
    /\ w_pc' = "idle"
    /\ UNCHANGED <<phase, capacity, ptr, mask, idx_r, idx_w, strong, cached_idx_r,
                   local_idx_w, w_alive, w_t, reader, ghost>>

\* Variant of push_publish that stores one more than local_idx_w (sensitivity of C19)
push_publish_twice ==
    /\ w_pc = "publish"
    /\ idx_w' = wrapping_add(local_idx_w, 1)
    /\ w_ret' = RetOpt("push", None)
    /\ w_op' = "none"
    /\ w_pc' = "idle"
    /\ UNCHANGED <<phase, capacity, ptr, mask, idx_r, strong, cached_idx_r, local_idx_w,
                   w_alive, w_t, reader, ghost>>

\* lib.rs:188-190
push_publish ==
    /\ w_pc = "publish"
    /\ idx_w' = local_idx_w
    /\ w_ret' = RetOpt("push", None)
    /\ w_op' = "none"
    /\ w_pc' = "idle"
    /\ UNCHANGED <<phase, capacity, ptr, mask, idx_r, strong, cached_idx_r, local_idx_w,
                   w_alive, w_t, reader, ghost>>

----------------------------------------------------------------------------
\* Reader

\* RingBufferReader::capacity
reader_capacity == len(ptr)

\* Variant of potentially_empty with the test inverted (sensitivity of C3)
potentially_empty_inverted == local_idx_r # cached_idx_w

\* lib.rs:291, the first test of is_empty, on the reader's own counters
potentially_empty == local_idx_r = cached_idx_w

\* Variant of really_empty with the test inverted (sensitivity of C20)
really_empty_inverted(w) == local_idx_r # w

\* lib.rs:295, the second test of is_empty, with the value w just loaded from idx_w
really_empty(w) == local_idx_r = w

\* The reference returned by the last peek or peek_mut, which borrows the reader
\* until the reader is used again: "shared", "mut" or "none"
r_ref ==
    IF r_pc = "idle" /\ r_alive /\ r_ret.opt # None /\ r_ret.op \in {"peek", "peek_mut"}
    THEN (IF r_ret.op = "peek_mut" THEN "mut" ELSE "shared")
    ELSE "none"

\* is_empty() returns b to its caller: to the user, or to pull, peek or peek_mut
is_empty_returns(op, b) ==
    IF op = "is_empty"
    THEN /\ r_pc' = "idle"
         /\ r_op' = "none"
         /\ r_ret' = RetBool("is_empty", b)
    ELSE IF b
    THEN /\ r_pc' = "idle"
         /\ r_op' = "none"
         /\ r_ret' = RetOpt(op, None)
    ELSE /\ r_pc' = (IF op = "pull" THEN "take" ELSE "ref")
         /\ r_op' = op
         /\ r_ret' = NoRet

\* pull(), peek(), peek_mut() or is_empty() is called, up to the first access to
\* shared memory; the call ends the borrow of an earlier peek or peek_mut
reader_call(op) ==
    /\ r_alive /\ r_pc = "idle"
    /\ IF potentially_empty
       THEN /\ r_pc' = "load"
            /\ r_op' = op
            /\ r_ret' = NoRet
       ELSE is_empty_returns(op, FALSE)
    /\ UNCHANGED <<shared, writer, local_idx_r, cached_idx_w, r_alive, r_t, ghost>>

\* Variant of is_empty_load that caches one more than it loaded (sensitivity of C16)
is_empty_load_ahead ==
    /\ r_pc = "load"
    /\ cached_idx_w' = wrapping_add(idx_w, 1)
    /\ is_empty_returns(r_op, really_empty(idx_w))
    /\ UNCHANGED <<shared, writer, local_idx_r, r_alive, r_t, ghost>>

\* lib.rs:293-295
is_empty_load ==
    /\ r_pc = "load"
    /\ cached_idx_w' = idx_w
    /\ is_empty_returns(r_op, really_empty(idx_w))
    /\ UNCHANGED <<shared, writer, local_idx_r, r_alive, r_t, ghost>>

\* Variant of pull_take that advances local_idx_r by two (sensitivity of C5)
pull_take_skips ==
    /\ r_pc = "take"
    /\ LET pos == get_unchecked_mut(local_idx_r, mask) IN
          /\ \E e \in assume_init(ptr[pos]) : r_t' = e
          /\ ub' = (ub \/ ptr[pos] = Uninit)
          /\ ptr' = [ptr EXCEPT ![pos] = Uninit]
    /\ local_idx_r' = wrapping_add(local_idx_r, 2)
    /\ r_pc' = "publish"
    /\ UNCHANGED <<phase, capacity, mask, idx_r, idx_w, strong, writer,
                   cached_idx_w, r_alive, r_op, r_ret, nextId, accepted, pulled,
                   destroyed, last_mut, last_peek, teardowns>>

\* Variant of pull_take that copies the value and leaves the slot as it is (sensitivity of C15)
pull_take_copies ==
    /\ r_pc = "take"
    /\ LET pos == get_unchecked_mut(local_idx_r, mask) IN
          /\ \E e \in assume_init(ptr[pos]) : r_t' = e
          /\ ub' = (ub \/ ptr[pos] = Uninit)
    /\ local_idx_r' = wrapping_add(local_idx_r, 1)
    /\ r_pc' = "publish"
    /\ UNCHANGED <<phase, capacity, ptr, mask, idx_r, idx_w, strong, writer,
                   cached_idx_w, r_alive, r_op, r_ret, nextId, accepted, pulled,
                   destroyed, last_mut, last_peek, teardowns>>

\* lib.rs:238-247
pull_take ==
    /\ r_pc = "take"
    /\ LET pos == get_unchecked_mut(local_idx_r, mask) IN
          /\ \E e \in assume_init(ptr[pos]) : r_t' = e
          /\ ub' = (ub \/ ptr[pos] = Uninit)
          /\ ptr' = [ptr EXCEPT ![pos] = Uninit]
    /\ local_idx_r' = wrapping_add(local_idx_r, 1)
    /\ r_pc' = "publish"
    /\ UNCHANGED <<phase, capacity, mask, idx_r, idx_w, strong, writer,
                   cached_idx_w, r_alive, r_op, r_ret, nextId, accepted, pulled,
                   destroyed, last_mut, last_peek, teardowns>>

\* lib.rs:248-250
pull_publish ==
    /\ r_pc = "publish"
    /\ idx_r' = local_idx_r
    /\ r_ret' = RetOpt("pull", Some(r_t))
    /\ pulled' = Append(pulled, r_t.id)
    /\ r_t' = Uninit
    /\ last_peek' = Uninit
    /\ r_op' = "none"
    /\ r_pc' = "idle"
    /\ UNCHANGED <<phase, capacity, ptr, mask, idx_w, strong, writer, local_idx_r,
                   cached_idx_w, r_alive, nextId, accepted, destroyed,
                   last_mut, teardowns, ub>>

\* Variant of peek_ref that shows the newest element (sensitivity of C6)
peek_ref_newest ==
    /\ r_pc = "ref"
    /\ LET pos == get_unchecked_mut(wrapping_sub(cached_idx_w, 1), mask) IN
          /\ \E e \in assume_init(ptr[pos]) :
                /\ r_ret' = RetOpt(r_op, Some(e))
                /\ last_peek' = e
          /\ ub' = (ub \/ ptr[pos] = Uninit)
    /\ r_op' = "none"
    /\ r_pc' = "idle"
    /\ UNCHANGED <<shared, writer, local_idx_r, cached_idx_w, r_alive, r_t,
                   nextId, accepted, pulled, destroyed, last_mut, teardowns>>

\* Variant of peek_ref that also advances local_idx_r (sensitivity of C12)
peek_ref_advances ==
    /\ r_pc = "ref"
    /\ LET pos == get_unchecked_mut(local_idx_r, mask) IN
          /\ \E e \in assume_init(ptr[pos]) :
                /\ r_ret' = RetOpt(r_op, Some(e))
                /\ last_peek' = e
          /\ ub' = (ub \/ ptr[pos] = Uninit)
    /\ local_idx_r' = wrapping_add(local_idx_r, 1)
    /\ r_op' = "none"
    /\ r_pc' = "idle"
    /\ UNCHANGED <<shared, writer, cached_idx_w, r_alive, r_t,
                   nextId, accepted, pulled, destroyed, last_mut, teardowns>>

\* lib.rs:263-267 and 280-284: the reference to the slot, and what it shows
peek_ref ==
    /\ r_pc = "ref"
    /\ LET pos == get_unchecked_mut(local_idx_r, mask) IN
          /\ \E e \in assume_init(ptr[pos]) :
                /\ r_ret' = RetOpt(r_op, Some(e))
                /\ last_peek' = e
          /\ ub' = (ub \/ ptr[pos] = Uninit)
    /\ r_op' = "none"
    /\ r_pc' = "idle"
    /\ UNCHANGED <<shared, writer, local_idx_r, cached_idx_w, r_alive, r_t,
                   nextId, accepted, pulled, destroyed, last_mut, teardowns>>

\* the caller writes payload v through the &mut T that peek_mut returned
mutate_ref(v) ==
    /\ r_ref = "mut"
    /\ LET pos == get_unchecked_mut(local_idx_r, mask) IN
          /\ ptr' = [ptr EXCEPT ![pos].val = v]
          /\ last_mut' = Elem(ptr[pos].id, v)
    /\ UNCHANGED <<phase, capacity, mask, idx_r, idx_w, strong, writer, reader,
                   nextId, accepted, pulled, destroyed, last_peek, teardowns, ub>>

----------------------------------------------------------------------------
\* Dropping the handles; Drop for RingBuffer

\* lib.rs:130-141: the sequences of values the loop may destroy
RECURSIVE drop_loop(_, _, _, _)
drop_loop(p, r, w, acc) ==
    IF r = w THEN {acc}
    ELSE LET pos == get_unchecked_mut(r, mask) IN
         UNION { drop_loop([p EXCEPT ![pos] = Uninit], wrapping_add(r, 1), w,
                           Append(acc, e)) : e \in assume_init(p[pos]) }

\* Variant of RingBuffer_drop that frees the slice without draining it (sensitivity of C7)
RingBuffer_drop_leaks ==
    /\ UNCHANGED <<destroyed, ub>>
    /\ ptr' = << >>
    /\ phase' = "freed"
    /\ teardowns' = teardowns + 1

\* lib.rs:126-151
RingBuffer_drop ==
    /\ \E d \in drop_loop(ptr, idx_r, idx_w, << >>) :
          /\ destroyed' = destroyed \o d
          /\ ub' = (ub \/ \E k \in 1 .. Len(d) : d[k].id = 0)
    /\ ptr' = << >>
    /\ phase' = "freed"
    /\ teardowns' = teardowns + 1

\* Variant of Arc_drop that drops the RingBuffer with the first handle (sensitivity of C8)
Arc_drop_eager ==
    /\ strong' = strong - 1
    /\ IF strong - 1 <= 1
       THEN RingBuffer_drop
       ELSE UNCHANGED <<ptr, phase, teardowns, destroyed, ub>>
    /\ UNCHANGED <<capacity, mask, idx_r, idx_w, nextId, accepted, pulled, last_mut,
                   last_peek>>

\* Arc::drop: the RingBuffer is dropped with the last reference to it
Arc_drop ==
    /\ strong' = strong - 1
    /\ IF strong - 1 = 0
       THEN RingBuffer_drop
       ELSE UNCHANGED <<ptr, phase, teardowns, destroyed, ub>>
    /\ UNCHANGED <<capacity, mask, idx_r, idx_w, nextId, accepted, pulled, last_mut,
                   last_peek>>

drop_writer ==
    /\ w_alive /\ w_pc = "idle"
    /\ w_alive' = FALSE
    /\ Arc_drop
    /\ UNCHANGED <<cached_idx_r, local_idx_w, w_pc, w_op, w_t, w_ret, reader>>

drop_reader ==
    /\ r_alive /\ r_pc = "idle"
    /\ r_alive' = FALSE
    /\ Arc_drop
    /\ UNCHANGED <<local_idx_r, cached_idx_w, r_pc, r_op, r_t, r_ret, writer>>

----------------------------------------------------------------------------
WriterStep ==
    \/ is_full_load
    \/ push_store
    \/ push_publish

ReaderStep ==
    \/ is_empty_load
    \/ pull_take
    \/ pull_publish
    \/ peek_ref

Next ==
    \/ \E c \in Usize : ringbuffer(c)
    \/ push_call
    \/ is_full_call
    \/ WriterStep
    \/ \E op \in {"pull", "peek", "peek_mut", "is_empty"} : reader_call(op)
    \/ ReaderStep
    \/ \E v \in MutValues : mutate_ref(v)
    \/ drop_writer
    \/ drop_reader

Spec == Init /\ [][Next]_vars

----------------------------------------------------------------------------
\* The retry loops of tests/verify.rs and of the crate's example: the producer
\* pushes MaxPush values and pushes a value again when push gave it back, the
\* consumer pulls until it has received MaxPush values.

\* the last push gave its value back
push_gave_back == w_ret.op = "push" /\ w_ret.opt # None

\* verify.rs:13-19: the next push of the producer's loop
retry_push ==
    IF push_gave_back
    THEN /\ UNCHANGED nextId
         /\ writer_call("push", w_ret.opt[1])
    ELSE push_call

\* lib.rs:36-41: the next pull of the consumer's loop
retry_pull ==
    /\ Len(pulled) < MaxPush
    /\ reader_call("pull")

ProducerLoop ==
    \/ retry_push
    \/ is_full_load
    \/ push_store
    \/ push_publish

ConsumerLoop ==
    \/ retry_pull
    \/ is_empty_load
    \/ pull_take
    \/ pull_publish

NextRetry ==
    \/ \E c \in Usize : ringbuffer(c)
    \/ ProducerLoop
    \/ ConsumerLoop

\* both threads are scheduled again and again (each yields when its call fails)
SpecRetry ==
    /\ Init /\ [][NextRetry]_vars
    /\ WF_vars(ProducerLoop)
    /\ WF_vars(ConsumerLoop)

----------------------------------------------------------------------------
\* Notions the properties are stated with

Live == phase = "live"

\* Number of pushes that have returned None
Published == IF w_pc = "publish" THEN Len(accepted) - 1 ELSE Len(accepted)

\* write_index - read_index == capacity
BufferFull == wrapping_sub(idx_w, idx_r) = len(ptr)

\* write_index == read_index
BufferEmpty == idx_w = idx_r

\* the step is the call of push
PushCalled == nextId' # nextId

\* the step is the call of reader operation op
ReaderCalled(op) == r_pc = "idle" /\ r_pc' # "idle" /\ r_op' = op

\* the step is the return of a push that failed
PushFailed == w_pc = "load" /\ w_op = "push" /\ w_pc' = "idle"

\* the step is the return of a pull that failed
PullFailed == r_pc = "load" /\ r_op = "pull" /\ r_pc' = "idle"

\* what a step of push or is_full leaves alone when it fails
WriterFrame == UNCHANGED <<idx_w, idx_r, local_idx_w, cached_idx_r, ptr>>

\* what a step of pull leaves alone when it fails
ReaderFrame == UNCHANGED <<idx_r, idx_w, local_idx_r, cached_idx_w, ptr>>

----------------------------------------------------------------------------
\* C1 Order preservation: in every state of every interleaving, the values
\* returned by successful pulls are, in order, the first values accepted by
\* pushes that returned None: none lost, duplicated or invented, each
\* returned with the payload it was pushed with (or the one the consumer
\* wrote into it); and when the buffer is empty every accepted value has
\* been pulled, so the two sequences are equal.
C1_OrderPreserved ==
    /\ Len(pulled) <= Published
    /\ \A k \in 1 .. Len(pulled) : pulled[k] = accepted[k].id
    /\ (r_ret.op = "pull" /\ r_ret.opt # None) =>
          LET e == r_ret.opt[1]
              n == Len(pulled) IN
          /\ n >= 1
          /\ e.id = pulled[n]
          /\ e.val = (IF last_mut.id = e.id THEN last_mut.val ELSE accepted[n].val)
    /\ (Live /\ w_pc = "idle" /\ r_pc = "idle" /\ BufferEmpty) =>
          pulled = [k \in 1 .. Len(accepted) |-> accepted[k].id]

\* three values pulled while a fourth and a fifth are still in the buffer
C1_Witness ==
    /\ Live /\ Len(pulled) = 3 /\ Len(accepted) = 5
    /\ r_ret.op = "pull" /\ r_ret.opt # None
    /\ last_mut = Uninit

\* C2 Full-push idempotence: a push called while write_index - read_index ==
\* capacity goes on to load read_index, and returns Some(v) if the buffer is
\* still full then; every push that returns Some returns the value it was
\* given, and neither its call nor its return changes write_index,
\* read_index, local_idx_w, cached_idx_r or any slot, so that the failed
\* push can be repeated with the same outcome.
C2_FullPushIdempotent ==
    /\ [][(PushCalled /\ BufferFull) => (w_pc' = "load" /\ WriterFrame)]_vars
    /\ [][(w_pc = "load" /\ w_op = "push" /\ w_pc' # "load" /\ BufferFull) =>
              w_pc' = "idle"]_vars
    /\ [][PushFailed =>
              (w_ret' = RetOpt("push", Some(w_t)) /\ WriterFrame /\ BufferFull')]_vars

\* the buffer of capacity 2 holds the first two values and the pushes of the
\* third and of the fourth value have both failed
C2_Witness ==
    /\ Live /\ capacity = 2 /\ BufferFull /\ w_pc = "idle"
    /\ Len(accepted) = 2 /\ pulled = << >>
    /\ w_ret = RetOpt("push", Some(Elem(4, 0)))

\* C3 Empty-pull idempotence: a pull called while write_index == read_index
\* goes on to load write_index, and returns None if the buffer is still
\* empty then; every pull that returns None leaves read_index, write_index,
\* local_idx_r, cached_idx_w and every slot as they were, at its call and at
\* its return.
C3_EmptyPullIdempotent ==
    /\ [][(ReaderCalled("pull") /\ BufferEmpty) => (r_pc' = "load" /\ ReaderFrame)]_vars
    /\ [][(r_pc = "load" /\ r_op = "pull" /\ r_pc' # "load" /\ BufferEmpty) =>
              r_pc' = "idle"]_vars
    /\ [][PullFailed =>
              (r_ret' = RetOpt("pull", None) /\ ReaderFrame /\ BufferEmpty')]_vars

\* a pull has returned None after two values were pushed and pulled
C3_Witness ==
    /\ Live /\ BufferEmpty /\ r_pc = "idle"
    /\ Len(pulled) = 2
    /\ r_ret = RetOpt("pull", None)

\* the step is a return of is_full or push that reports the buffer full
WriterReportsFull ==
    /\ w_pc' = "idle"
    /\ w_pc # "idle" \/ w_ret' # w_ret
    /\ \/ w_ret' = RetBool("is_full", TRUE)
       \/ w_ret'.op = "push" /\ w_ret'.opt # None

\* the step is a return of is_empty, pull, peek or peek_mut that reports the buffer empty
ReaderReportsEmpty ==
    /\ r_pc' = "idle"
    /\ r_pc # "idle" \/ r_ret' # r_ret
    /\ \/ r_ret' = RetBool("is_empty", TRUE)
       \/ r_ret'.op \in {"pull", "peek", "peek_mut"} /\ r_ret'.opt = None

\* C4 Failure results are definitive: push returns Some and is_full returns
\* true only in the step that loads read_index, and only if write_index -
\* read_index == capacity in that step (capacity more values accepted than
\* pulled); pull and peek return None and is_empty returns true only in the
\* step that loads write_index, and only if write_index == local_idx_r in
\* that step (every published value already pulled).
C4_FailureDefinitive ==
    /\ [][WriterReportsFull =>
              /\ w_pc = "load"
              /\ BufferFull
              /\ Len(accepted) = Len(pulled) + len(ptr)]_vars
    /\ [][ReaderReportsEmpty =>
              /\ r_pc = "load"
              /\ idx_w = local_idx_r
              /\ Len(pulled) = Published]_vars

\* is_full has returned true and peek has returned None, after some value was pulled
C4_Witness ==
    /\ Live /\ Len(pulled) >= 1
    /\ w_pc = "idle" /\ w_ret = RetBool("is_full", TRUE)
    /\ r_pc = "idle" /\ r_ret = RetOpt("peek", None)

\* the step is a return of is_full
IsFullReturned ==
    /\ w_pc' = "idle"
    /\ w_pc # "idle" \/ w_ret' # w_ret
    /\ w_ret'.op = "is_full"

\* C5 Capacity reclaim: never more than capacity values are accepted beyond
\* those pulled; a push fails, and is_full returns true, exactly when
\* capacity more values have been accepted than pulled.  Hence from the
\* empty buffer with no pull exactly capacity pushes succeed, is_full is
\* then true and the next push fails, and after one pull exactly one more
\* push succeeds and the one after it fails.
C5_CapacityReclaim ==
    /\ [](Live => Len(accepted) <= Len(pulled) + len(ptr))
    /\ [][PushFailed => Len(accepted) = Len(pulled) + len(ptr)]_vars
    /\ [][IsFullReturned => (w_ret'.b <=> Len(accepted) = Len(pulled) + len(ptr))]_vars
    /\ [][(w_pc = "load" /\ w_op = "push" /\ w_pc' # "load"
             /\ Len(accepted) = Len(pulled) + len(ptr)) => PushFailed]_vars

\* capacity 2: the first two pushes succeeded, the third failed, one value was
\* pulled, the fourth push succeeded and the fifth failed
C5_Witness ==
    /\ Live /\ capacity = 2 /\ w_pc = "idle" /\ r_pc = "idle"
    /\ [k \in 1 .. Len(accepted) |-> accepted[k].id] = <<1, 2, 4>>
    /\ pulled = <<1>>
    /\ w_ret = RetOpt("push", Some(Elem(5, 0)))

\* the oldest unread element
Oldest == accepted[Len(pulled) + 1]

\* the payload an element has now: as pushed, or as last written by the consumer
CurrentVal(e) == IF last_mut.id = e.id THEN last_mut.val ELSE e.val

\* C6 Peek/pull consistency: peek and peek_mut return the oldest unread
\* element with its current payload; a peek_mut or a pull that follows a
\* peek or peek_mut with no pull in between returns the element that call
\* showed, whatever the writer does meanwhile, with the payload that call
\* showed or, if the consumer wrote through a peek_mut reference, the
\* payload last written.
C6_PeekPullConsistent ==
    /\ [](r_ref # "none" =>
              /\ Len(pulled) < Published
              /\ r_ret.opt[1].id = Oldest.id
              /\ last_peek = r_ret.opt[1])
    /\ [][(r_pc = "ref" /\ r_pc' = "idle") =>
              LET x == r_ret'.opt[1] IN
              /\ x.id = Oldest.id
              /\ x.val = CurrentVal(Oldest)
              /\ last_peek # Uninit =>
                    /\ x.id = last_peek.id
                    /\ x.val = CurrentVal(last_peek)]_vars
    /\ [][(r_pc = "publish" /\ r_pc' = "idle") =>
              LET x == r_ret'.opt[1] IN
              /\ r_ret'.op = "pull"
              /\ x.id = Oldest.id
              /\ x.val = CurrentVal(Oldest)
              /\ last_peek # Uninit =>
                    /\ x.id = last_peek.id
                    /\ x.val = CurrentVal(last_peek)]_vars

\* the first value was shown by peek_mut, written to, and then pulled with the
\* payload written, while the writer had pushed two more values
C6_Witness ==
    /\ r_ret = RetOpt("pull", Some(Elem(1, 1)))
    /\ last_mut = Elem(1, 1)
    /\ Len(accepted) = 3

\* identities of a sequence of values
Ids(q) == [k \in 1 .. Len(q) |-> q[k].id]

\* number of times identity i occurs in the sequence of identities q
Count(q, i) == Cardinality({k \in 1 .. Len(q) : q[k] = i})

\* number of places that hold the value of identity i: a slot, the pull in
\* progress, the values pulled and the values destroyed
Owners(i) ==
    Count(Ids(ptr), i) + Count(pulled, i) + Count(Ids(destroyed), i)
        + (IF r_t.id = i THEN 1 ELSE 0)

\* C7 Exactly-once destruction: every value accepted by a push is at any
\* time in exactly one place: in a slot, moved out by one pull, or destroyed
\* once by the teardown; the teardown destroys exactly the values that are
\* unread when the last handle is dropped, in order, nothing is destroyed
\* before, no slot is assumed initialised that is not, and a value that a
\* failed push gave back is never stored or destroyed.
C7_ExactlyOnceDestruction ==
    /\ ~ub
    /\ \A k \in 1 .. Len(accepted) : Owners(accepted[k].id) = 1
    /\ \A i \in 1 .. MaxPush :
          (\A k \in 1 .. Len(accepted) : accepted[k].id # i) => Owners(i) = 0
    /\ phase # "freed" => destroyed = << >>
    /\ phase = "freed" =>
          /\ Len(destroyed) = Len(accepted) - Len(pulled)
          /\ pulled \o Ids(destroyed) = Ids(accepted)

\* both handles are dropped: the first value was pulled, the second and the
\* fourth were destroyed unread by the teardown, the third and the fifth had
\* been given back by failed pushes
C7_Witness ==
    /\ phase = "freed"
    /\ Ids(accepted) = <<1, 2, 4>>
    /\ pulled = <<1>>
    /\ Ids(destroyed) = <<2, 4>>
    /\ nextId = 6

\* the slot of the k-th accepted value
SlotOf(k) == ptr[get_unchecked_mut((k - 1) % Modulus, mask)]

\* number of values moved out of their slots
Taken == IF r_pc = "publish" THEN Len(pulled) + 1 ELSE Len(pulled)

\* C8 Teardown: RingBuffer::drop runs at most once, and it has run exactly
\* when both handles have been dropped, whichever was dropped first; while
\* a handle exists nothing is destroyed, the slice keeps its capacity slots
\* and every unread value stays in its slot; the surviving handle goes on
\* working: its calls are enabled, a pull after the writer is dropped fails
\* only when every accepted value has been pulled, and a push after the
\* reader is dropped fails only when the buffer is full.
C8_TeardownAfterBothDropped ==
    /\ [](teardowns <= 1 /\ (teardowns = 1 <=> phase = "freed"))
    /\ [](phase \in {"live", "freed"} =>
              /\ phase = "freed" <=> (~w_alive /\ ~r_alive)
              /\ strong = (IF w_alive THEN 1 ELSE 0) + (IF r_alive THEN 1 ELSE 0))
    /\ [](Live =>
              /\ destroyed = << >>
              /\ len(ptr) = capacity
              /\ \A k \in (Taken + 1) .. Len(accepted) : SlotOf(k) = accepted[k]
                    \/ (SlotOf(k).id = accepted[k].id /\ last_mut.id = accepted[k].id))
    /\ []((r_alive /\ r_pc = "idle") => ENABLED reader_call("pull"))
    /\ []((w_alive /\ w_pc = "idle") => ENABLED is_full_call)
    /\ []((w_alive /\ w_pc = "idle" /\ nextId <= MaxPush) => ENABLED push_call)
    /\ [][(~w_alive /\ PullFailed) => Len(pulled) = Len(accepted)]_vars
    /\ [][(~r_alive /\ PushFailed) => Len(accepted) = Len(pulled) + len(ptr)]_vars

\* the writer is dropped and the reader is pulling the second of three values
C8_Witness ==
    /\ Live /\ ~w_alive /\ r_alive
    /\ r_pc = "publish" /\ Len(pulled) = 1 /\ Len(accepted) = 3

\* n is a non-zero power of two
IsPowerOfTwo(n) == \E k \in 0 .. IdxBits : n = 2 ^ k

\* C9 Invalid capacity rejection: ringbuffer(capacity) yields the two
\* handles exactly when capacity is a non-zero power of two, and panics
\* otherwise, before any handle exists; on success both indices and the four
\* handle-local counters are 0 and the slice has capacity slots, and
\* capacity() of either handle returns the requested capacity as long as the
\* handle exists.
C9_InvalidCapacityRejected ==
    /\ [](phase # "start" =>
              /\ phase \in {"live", "freed"} <=> IsPowerOfTwo(capacity)
              /\ phase = "panicked" <=> ~IsPowerOfTwo(capacity))
    /\ [](phase \in {"start", "panicked"} =>
              /\ ~w_alive /\ ~r_alive /\ strong = 0 /\ ptr = << >>
              /\ w_pc = "idle" /\ r_pc = "idle" /\ nextId = 1)
    /\ [][(phase = "start" /\ phase' = "live") =>
              /\ w_alive' /\ r_alive'
              /\ idx_r' = 0 /\ idx_w' = 0
              /\ cached_idx_r' = 0 /\ local_idx_w' = 0
              /\ local_idx_r' = 0 /\ cached_idx_w' = 0
              /\ len(ptr') = capacity'
              /\ \A p \in 1 .. capacity' : ptr'[p] = Uninit]_vars
    /\ [](w_alive => writer_capacity = capacity)
    /\ [](r_alive => reader_capacity = capacity)

\* ringbuffer(3) has panicked
C9_Witness == phase = "panicked" /\ capacity = 3

\* number of steps a thread at position pc has left, at most, before its call returns
Rank(pc) ==
    CASE pc = "idle" -> 0
      [] pc = "publish" -> 1
      [] pc = "ref" -> 1
      [] pc = "store" -> 2
      [] pc = "take" -> 2
      [] pc = "load" -> 3

\* C10 Non-blocking: in every state in which a call of push, is_full, pull,
\* peek, peek_mut or is_empty is in progress, the calling thread has a step
\* it can take, whatever state the other thread is in, and every step of the
\* call brings it nearer to its return: a call returns after at most four
\* steps of its own thread (the call and three more) and never waits for
\* the other thread's index to change.
C10_NonBlocking ==
    /\ w_pc # "idle" => ENABLED (WriterStep /\ Rank(w_pc') < Rank(w_pc))
    /\ ~ ENABLED (WriterStep /\ Rank(w_pc') >= Rank(w_pc))
    /\ r_pc # "idle" => ENABLED (ReaderStep /\ Rank(r_pc') < Rank(r_pc))
    /\ ~ ENABLED (ReaderStep /\ Rank(r_pc') >= Rank(r_pc))
    /\ (w_alive /\ w_pc = "idle") => ENABLED (is_full_call /\ Rank(w_pc') <= 3)
    /\ (w_alive /\ w_pc = "idle" /\ nextId <= MaxPush) =>
          ENABLED (push_call /\ Rank(w_pc') <= 3)
    /\ (r_alive /\ r_pc = "idle") =>
          \A op \in {"pull", "peek", "peek_mut", "is_empty"} :
              ENABLED (reader_call(op) /\ Rank(r_pc') <= 3)

\* the buffer is full and the reader has stopped between taking a value and
\* publishing read_index: the push in progress is about to load read_index
C10_Witness ==
    /\ Live /\ BufferFull
    /\ w_pc = "load" /\ w_op = "push"
    /\ r_pc = "publish"

----------------------------------------------------------------------------
\* the producer's loop has ended: every value was pushed and accepted
ProducerDone == nextId > MaxPush /\ w_pc = "idle" /\ ~push_gave_back

\* the consumer's loop has ended: it has received MaxPush values
ConsumerDone == Len(pulled) = MaxPush /\ r_pc = "idle"

\* C11 Progress of the retry loops: when both threads are scheduled fairly,
\* the producer's and the consumer's retry loops both end, with every one of
\* the MaxPush values pulled, in order, for every capacity; and in no state
\* is the buffer full for the writer and empty for the reader at once.
C11_RetryLoopsTerminate ==
    /\ Live ~> (ProducerDone /\ ConsumerDone /\ pulled = [k \in 1 .. MaxPush |-> k])
    /\ [](Live => ~(BufferFull /\ BufferEmpty))

\* capacity 1: both loops have ended and all values were received
C11_Witness ==
    /\ Live /\ capacity = 1
    /\ ProducerDone /\ ConsumerDone
    /\ Len(accepted) = MaxPush

----------------------------------------------------------------------------
\* the reader operations that only look
Queries == {"peek", "peek_mut", "is_empty"}

\* the step is a step (call, load, reference or return) of peek, peek_mut or is_empty
QueryStep ==
    /\ r_alive' /\ reader' # reader
    /\ \/ r_op \in Queries
       \/ r_op' \in Queries
       \/ r_ret' # r_ret /\ r_ret'.op \in Queries

\* the step is a step of is_full
IsFullStep ==
    /\ w_alive' /\ writer' # writer
    /\ \/ w_op = "is_full"
       \/ w_op' = "is_full"
       \/ w_ret' # w_ret /\ w_ret'.op = "is_full"

\* C12 Frame: every step of peek, peek_mut and is_empty leaves read_index,
\* write_index, local_idx_r, the slots and everything of the writer
\* unchanged (of the indices only cached_idx_w may change); every step of
\* is_full leaves write_index, read_index, local_idx_w, the slots and
\* everything of the reader unchanged (only cached_idx_r may change); once
\* constructed, write_index changes only in the step in which a push
\* returns None, and read_index only in the step in which a pull returns Some.
C12_Frame ==
    [][ /\ QueryStep => UNCHANGED <<shared, writer, local_idx_r, r_t>>
        /\ IsFullStep => UNCHANGED <<shared, reader, local_idx_w, w_t>>
        /\ (Live /\ idx_w' # idx_w) =>
              /\ w_pc = "publish" /\ w_op = "push"
              /\ w_ret' = RetOpt("push", None)
              /\ idx_w' = wrapping_add(idx_w, 1)
        /\ (Live /\ idx_r' # idx_r) =>
              /\ r_pc = "publish" /\ r_op = "pull"
              /\ r_ret'.op = "pull" /\ r_ret'.opt # None
              /\ idx_r' = wrapping_add(idx_r, 1)
      ]_vars

\* a peek has shown an element and an is_full has answered false after
\* loading read_index: both caches were refreshed, nothing else moved
C12_Witness ==
    /\ Live
    /\ w_ret = RetBool("is_full", FALSE) /\ cached_idx_r = idx_r /\ idx_r # 0
    /\ r_ret.op = "peek" /\ r_ret.opt # None /\ cached_idx_w = idx_w

----------------------------------------------------------------------------
\* the slot the writer's next store goes to
WriterSlot == ptr[get_unchecked_mut(local_idx_w, mask)]

\* C13 Writer's bound: in every state, in the middle of a push or a pull
\* too, local_idx_w - cached_idx_r (wrapping) is at most the capacity; and
\* when push is about to store, it is less than the capacity and the slot
\* the store goes to holds no unconsumed element.
C13_WriterBound ==
    Live =>
       /\ wrapping_sub(local_idx_w, cached_idx_r) <= len(ptr)
       /\ w_pc = "store" =>
             /\ wrapping_sub(local_idx_w, cached_idx_r) < len(ptr)
             /\ WriterSlot = Uninit

\* push is about to store into the last slot its cache allows, the write
\* index having wrapped and the read index not
C13_Witness ==
    /\ Live /\ w_pc = "store"
    /\ local_idx_w < cached_idx_r
    /\ wrapping_sub(local_idx_w, cached_idx_r) = len(ptr) - 1
    /\ len(ptr) > 1

----------------------------------------------------------------------------
\* logical index i lies in the half-open range [lo, hi) of wrapping indices
InRange(i, lo, hi) == wrapping_sub(i, lo) < wrapping_sub(hi, lo)

\* the reader accesses a slot or holds a reference to one
ReaderAccess == r_pc \in {"take", "ref"} \/ r_ref # "none"

\* C14 as stated: when push stores, the logical index it stores at lies in
\* [cached_idx_r, local_idx_w); when the reader reads, the logical index it
\* reads lies in [local_idx_r, cached_idx_w).
C14_WindowsAsStated ==
    Live =>
       /\ w_pc = "store" => InRange(local_idx_w, cached_idx_r, local_idx_w)
       /\ ReaderAccess => InRange(local_idx_r, local_idx_r, cached_idx_w)

\* C14 Windows, amended: when push stores, the logical index it stores at,
\* local_idx_w, lies in [local_idx_w, cached_idx_r + capacity), the slots the
\* writer knows to be free, and its slot is the slot of no logical index in
\* [cached_idx_r, local_idx_w); when the reader reads a slot or holds a
\* reference to it, its logical index, local_idx_r, lies in
\* [local_idx_r, cached_idx_w).
C14_Windows ==
    Live =>
       /\ w_pc = "store" =>
             /\ InRange(local_idx_w, local_idx_w, wrapping_add(cached_idx_r, len(ptr)))
             /\ \A j \in Usize :
                   InRange(j, cached_idx_r, local_idx_w) =>
                      get_unchecked_mut(j, mask) # get_unchecked_mut(local_idx_w, mask)
       /\ ReaderAccess => InRange(local_idx_r, local_idx_r, cached_idx_w)

\* push stores while pull takes, the range [cached_idx_r, local_idx_w) not empty
C14_Witness ==
    /\ Live
    /\ w_pc = "store" /\ r_pc = "take"
    /\ local_idx_w # cached_idx_r

----------------------------------------------------------------------------
\* no push and no pull is between its slot access and the store of its index
Quiescent == w_pc # "publish" /\ r_pc # "publish"

\* C15 Slot validity follows the index range: in every state in which no
\* push and no pull is between its slot access and the store of its index,
\* a slot holds a value exactly if it is the slot of a logical index in
\* [read_index, write_index), and the slot of the k-th accepted value holds
\* that value exactly if the value is not yet pulled; and never, in pull,
\* peek, peek_mut or the teardown, is a slot assumed initialised that holds
\* no value.
C15_SlotValidity ==
    /\ ~ub
    /\ (Live /\ Quiescent) =>
          /\ \A p \in 1 .. len(ptr) :
                ptr[p] # Uninit <=>
                   \E j \in Usize :
                      InRange(j, idx_r, idx_w) /\ get_unchecked_mut(j, mask) = p
          /\ \A k \in 1 .. Len(accepted) :
                SlotOf(k).id = accepted[k].id <=> k > Len(pulled)

\* the buffer is full, the write index has wrapped and the read index has not
C15_Witness ==
    /\ Live /\ Quiescent
    /\ BufferFull /\ len(ptr) = 2
    /\ idx_w < idx_r
    /\ r_ret.op = "peek_mut" /\ r_ret.opt # None

----------------------------------------------------------------------------
\* the physical slots the two sides access
WriterPos == get_unchecked_mut(local_idx_w, mask)
ReaderPos == get_unchecked_mut(local_idx_r, mask)

\* C16 No data race on a slot: in no state is push at its slot store while
\* the reader is at the slot access of pull, peek or peek_mut, or holds the
\* reference peek or peek_mut returned, with both at the same physical slot.
C16_NoDataRace ==
    (Live /\ w_pc = "store" /\ ReaderAccess) => WriterPos # ReaderPos

\* push is at its slot store while the reader holds a &mut T into the
\* other slot, the write index one lap ahead
C16_Witness ==
    /\ Live /\ len(ptr) = 2
    /\ w_pc = "store" /\ r_ref = "mut"
    /\ WriterPos # ReaderPos
    /\ local_idx_w < local_idx_r

----------------------------------------------------------------------------
\* The indices as unbounded counters: the number of slot stores and of slot
\* takes so far, and the other indices by their wrapping distance from them.
u_local_w == Len(accepted)
u_idx_w == u_local_w - wrapping_sub(local_idx_w, idx_w)
u_cached_r == u_local_w - wrapping_sub(local_idx_w, cached_idx_r)
u_local_r == Taken
u_idx_r == u_local_r - wrapping_sub(local_idx_r, idx_r)
u_cached_w == u_local_r + wrapping_sub(cached_idx_w, local_idx_r)

\* the slot of the k-th accepted value holds that value
Holds(k) == k <= Len(accepted) /\ SlotOf(k).id = accepted[k].id

\* C17 Publication order: a value is in its slot before write_index counts
\* it, and out of its slot before read_index counts it.  In every state,
\* for every k: if write_index, or the write index the reader last loaded,
\* is beyond the k-th value, the value is in its slot unless the reader has
\* taken it; if read_index, or the read index the writer last loaded, is
\* beyond the k-th value, the value is no longer in its slot.
C17_PublicationOrder ==
    Live =>
       \A k \in 1 .. MaxPush :
          /\ (k <= u_idx_w \/ k <= u_cached_w) => (k <= u_local_r \/ Holds(k))
          /\ (k <= u_idx_r \/ k <= u_cached_r) => (k <= u_local_r /\ ~Holds(k))

\* the reader has loaded a write index that counts two values, the writer a
\* read index that counts one, and a third value is stored and not yet published
C17_Witness ==
    /\ Live
    /\ u_cached_w = 2 /\ u_cached_r = 1
    /\ w_pc = "publish" /\ u_local_w = 3 /\ u_idx_w = 2
    /\ Holds(2) /\ Holds(3) /\ ~Holds(1)

----------------------------------------------------------------------------
\* identities of the accepted values that no pull has returned
Unread == [k \in 1 .. (Len(accepted) - Len(pulled)) |-> accepted[Len(pulled) + k].id]

\* C18 Wrap-around: with indices of IdxBits bits that wrap, and any capacity
\* the constructor accepts, the indices are the numbers of pushes and pulls
\* modulo 2^IdxBits; the buffer is found full exactly when capacity values
\* are unread and empty exactly when none is, also after an index has
\* wrapped; the k-th value's slot is slot k mod capacity; the values pulled
\* are the first values accepted, in order; and the teardown destroys
\* exactly the unread values, in order.
C18_WrapHarmless ==
    /\ Live =>
          /\ idx_w = Published % Modulus
          /\ idx_r = Len(pulled) % Modulus
          /\ local_idx_w = Len(accepted) % Modulus
          /\ local_idx_r = Taken % Modulus
          /\ BufferFull <=> (Published - Len(pulled) = len(ptr))
          /\ BufferEmpty <=> (Published = Len(pulled))
          /\ \A k \in 0 .. MaxPush :
                get_unchecked_mut(k % Modulus, mask) = (k % len(ptr)) + 1
          /\ \A k \in 1 .. Len(pulled) : pulled[k] = accepted[k].id
          /\ Len(accepted) - Len(pulled) <= len(ptr) + 1
    /\ phase = "freed" => Ids(destroyed) = Unread

\* the teardown has destroyed the two values of a full buffer whose write
\* index had wrapped and whose read index had not
C18_Witness ==
    /\ phase = "freed"
    /\ idx_w < idx_r
    /\ Len(destroyed) = 2 /\ capacity = 2
    /\ Len(accepted) > Modulus

----------------------------------------------------------------------------
\* the six indices as unbounded counters
Indices == <<u_cached_r, u_idx_r, u_local_r, u_cached_w, u_idx_w, u_local_w>>

\* the chain of the indices
IndexChain ==
    /\ u_idx_w = Published /\ u_idx_r = Len(pulled)
    /\ wrapping_sub(local_idx_w, cached_idx_r) <= len(ptr)
    /\ wrapping_sub(cached_idx_w, local_idx_r) <= len(ptr)
    /\ u_cached_r <= u_idx_r
    /\ u_idx_r <= u_local_r
    /\ u_local_r <= u_cached_w
    /\ u_cached_w <= u_idx_w
    /\ u_idx_w <= u_local_w
    /\ u_local_w <= u_cached_r + len(ptr)
    /\ u_idx_w - u_idx_r <= len(ptr)
    /\ wrapping_sub(idx_w, idx_r) <= len(ptr)
    /\ w_pc # "publish" => idx_w = local_idx_w
    /\ r_pc # "publish" => idx_r = local_idx_r

\* C19 Index chain: counted without wrapping, in every state
\* cached_idx_r <= read_index <= local_idx_r <= cached_idx_w <= write_index
\* <= local_idx_w <= cached_idx_r + capacity, so write_index - read_index
\* <= capacity; read_index = local_idx_r and write_index = local_idx_w
\* unless the owning side is between its increment and its store; and no
\* step makes any of the six indices smaller.
C19_IndexChain ==
    /\ [](Live => IndexChain)
    /\ [][(Live /\ Live') => \A n \in 1 .. 6 : Indices'[n] >= Indices[n]]_vars

\* both sides are between increment and store, the writer capacity ahead
\* of the read index it knows
C19_Witness ==
    /\ Live
    /\ w_pc = "publish" /\ r_pc = "publish"
    /\ u_local_w = u_cached_r + len(ptr)
    /\ u_cached_r < u_local_r
    /\ u_local_w > Modulus

----------------------------------------------------------------------------
\* the writer's last call was is_full and it returned false
WriterSawRoom == w_alive /\ w_ret = RetBool("is_full", FALSE)

\* the reader's last call was is_empty that returned false, or peek or
\* peek_mut that returned an element
ReaderSawElement ==
    /\ r_alive /\ r_pc = "idle"
    /\ \/ r_ret = RetBool("is_empty", FALSE)
       \/ r_ret.op \in {"peek", "peek_mut"} /\ r_ret.opt # None

\* C20 Check-then-act is stable: from the return of an is_full that said
\* false until the writer's next push stores, whatever the reader does, the
\* buffer is not full and the writer's own test says so, and that push goes
\* to its store without a failure and returns None; from the return of an
\* is_empty that said false, or of a peek or peek_mut that returned an
\* element, until the reader's next pull, whatever the writer does, the
\* buffer is not empty and the reader's own test says so, and that pull
\* goes to its take of an initialised slot, so that it returns Some.
C20_CheckThenAct ==
    /\ [](Live =>
            /\ (WriterSawRoom /\ w_pc # "publish") =>
                  /\ ~BufferFull
                  /\ ~potentially_full
                  /\ Len(accepted) - Len(pulled) < len(ptr)
            /\ ReaderSawElement =>
                  /\ ~BufferEmpty
                  /\ ~potentially_empty
                  /\ Published - Taken > 0
            /\ r_pc = "take" => ptr[get_unchecked_mut(local_idx_r, mask)] # Uninit)
    /\ [][ /\ (WriterSawRoom /\ PushCalled) => w_pc' = "store"
           /\ (WriterSawRoom /\ w_ret' # w_ret /\ w_ret'.op = "push") => w_ret'.opt = None
           /\ (ReaderSawElement /\ ReaderCalled("pull")) => r_pc' = "take"
           /\ (r_pc = "take" /\ r_pc' # "take") => r_pc' = "publish"
           /\ (r_pc = "publish" /\ r_pc' # "publish") =>
                 r_ret'.op = "pull" /\ r_ret'.opt # None
         ]_vars

\* the push that follows an is_full that said false is at its store, one
\* slot left, while the reader, told by is_empty that there is an element,
\* has not pulled yet
C20_Witness ==
    /\ Live
    /\ WriterSawRoom /\ w_pc = "store" /\ w_op = "push"
    /\ ReaderSawElement /\ r_ret = RetBool("is_empty", FALSE)
    /\ Len(accepted) - Len(pulled) = len(ptr) - 1
    /\ Len(pulled) >= 1

====
